---- MODULE Spec2Model ----
(***************************************************************************)
(* A model of targa: Model construction (targa/model.py) and the Database  *)
(* session wrapped around one aiomysql connection (targa/database.py).     *)
(*                                                                         *)
(* Text is a sequence of tokens.  Every character that comes from data (a  *)
(* caller's query, a substitution value, a field value, a class name) is   *)
(* one token of one character; a literal piece of an f-string that holds   *)
(* no '?' and is never cut ("INSERT INTO ", "WHERE ", a field name) is one *)
(* token.  The ", " that query[:-2] cuts off is the two tokens "," and " ".*)
(***************************************************************************)
EXTENDS Integers, Sequences, FiniteSets, TLC

VARIABLES
    _connection,     \* Database._connection: NoConnection or the wrapped connection
    connect_args,    \* the arguments of the last Database.connect call
    pc,              \* where the current Database call is suspended
    op,              \* the public method called: "query", "insert", "update"
    query_arg,       \* the query text as the caller supplied it
    substitutions,   \* the *substitutions of the call
    query,           \* the local `query` (rewritten by the substitution loop)
    model_inst,      \* the Model instance given to insert / update
    where_arg,       \* update's where_clause argument as the caller gave it
    where_clause,    \* update's local where_clause
    log,             \* the uses of the connection made by the current call, in order
    outer_ex,        \* the exception of the first cursor.execute
    e,               \* the exception of the second cursor.execute
    attempts,        \* history: the outcome of each cursor.execute of the call
    description,     \* cursor.description after the execution
    rows,            \* what cursor.fetchall returned
    result,          \* the value the call returned
    raised,          \* the exception the call raised
    annotations,     \* the __annotations__ of the Model subclass being constructed
    kwargs,          \* the **kwargs of the construction
    self_dict,       \* the instance's __dict__
    init_class,      \* the class instantiated: "Model" itself or a subclass
    init_pc,         \* "new", "constructed" or "raised"
    init_raised      \* the exception Model.__init__ raised

vars == <<_connection, connect_args, pc, op, query_arg, substitutions, query,
          model_inst, where_arg, where_clause, log, outer_ex, e, attempts,
          description, rows, result, raised, annotations, kwargs, self_dict, init_class, init_pc, init_raised>>

sessionVars == <<pc, op, query_arg, substitutions, query, model_inst, where_arg,
                 where_clause, log, outer_ex, e, attempts, description, rows,
                 result, raised>>

modelVars == <<annotations, kwargs, self_dict, init_class, init_pc, init_raised>>

(***************************************************************************)
(* Bounds of the model.                                                    *)
(***************************************************************************)
MaxLen == 3        \* longest caller-supplied query text, in characters
MaxSubs == 2       \* most substitution values in one call
MaxRows == 2       \* most rows one fetchall returns
MaxFields == 2     \* most declared fields of a Model subclass under construction

(***************************************************************************)
(* Python values: None, int, str and bool objects.                         *)
(***************************************************************************)
None == [cls |-> "NoneType", i |-> 0, s |-> <<>>]
PyInt(n) == [cls |-> "int", i |-> n, s |-> <<>>]
PyStr(t) == [cls |-> "str", i |-> 0, s |-> t]
PyBool(b) == [cls |-> "bool", i |-> IF b THEN 1 ELSE 0, s |-> <<>>]

\* bool(x): the truth value `if x:` tests
truthy(x) ==
    CASE x.cls = "NoneType" -> FALSE
      [] x.cls = "int" -> x.i # 0
      [] x.cls = "bool" -> x.i # 0
      [] x.cls = "str" -> Len(x.s) > 0

Digit == <<"1", "2", "3", "4", "5", "6", "7", "8", "9">>

\* str(x), for the one-digit ints the model uses
str(x) ==
    CASE x.cls = "str" -> x.s
      [] x.cls = "NoneType" -> <<"N", "o", "n", "e">>
      [] x.cls = "bool" -> IF x.i # 0 THEN <<"T", "r", "u", "e">>
                                      ELSE <<"F", "a", "l", "s", "e">>
      [] x.cls = "int" -> IF x.i = 0 THEN <<"0">> ELSE <<Digit[x.i]>>

(***************************************************************************)
(* Exceptions: a class and its args.                                       *)
(***************************************************************************)
NoException == [cls |-> "none", args |-> <<>>]
Exc(c, a) == [cls |-> c, args |-> a]

\* isinstance(ex, Exception): asyncio.CancelledError is a BaseException only
IsException(ex) == ex.cls # "CancelledError"

\* isinstance(ex, RuntimeError)
IsRuntimeError(ex) == ex.cls \in {"RuntimeError", "NotImplementedError"}

\* MySQLErrors.duplicate_primary_key (targa/errors, MySQL's ER_DUP_ENTRY)
duplicate_primary_key == 1062

InitializationError == Exc("InitializationError", <<>>)
SubstError == Exc("SubstError", <<>>)

(***************************************************************************)
(* The connection's escape_string.  Of the characters the model's texts   *)
(* hold, the quote and the backslash get a backslash before them and every *)
(* other one (the '?' too) is kept.                                        *)
(***************************************************************************)
RECURSIVE escape_chars(_)
escape_chars(t) ==
    IF t = <<>> THEN <<>>
    ELSE (IF Head(t) \in {"'", "\\"} THEN <<"\\", Head(t)>> ELSE <<Head(t)>>)
         \o escape_chars(Tail(t))

\* a str is escaped; any other object has no .translate and raises AttributeError
escape_string(x) ==
    IF x.cls = "str" THEN [ok |-> TRUE, text |-> escape_chars(x.s)]
    ELSE [ok |-> FALSE, text |-> <<>>]

(***************************************************************************)
(* targa/model.py                                                          *)
(***************************************************************************)
\* a declared type: T, Optional[T], PK[T] or PK[Optional[T]]
Type(pk, optional, base) == [pk |-> pk, optional |-> optional, base |-> base]

\* isinstance(expected_type, _PK) ... expected_type._type
unwrap(t) == IF t.pk THEN [t EXCEPT !.pk = FALSE] ELSE t

\* kwargs[field].__class__ != expected_type
class_differs(value, expected_type) ==
    expected_type.optional \/ expected_type.base # value.cls

\* hasattr(expected_type, '__args__') and expected_type.__args__[-1] == type(None)
is_optional(expected_type) == expected_type.optional

\* the check `if kwargs[field]:` guarding the raise for an Optional field
rejects_optional(value) == truthy(value)

\* One pass of the loop of Model.__init__ over the fields from position n on.
\* annots is the sequence of <<field, declared type>>, kw the keyword arguments
\* (a function on the names supplied), d the __dict__ built so far.
RECURSIVE init_loop(_, _, _, _)
init_loop(annots, kw, d, n) ==
    IF n > Len(annots) THEN [raised |-> NoException, dict |-> d]
    ELSE LET field == annots[n][1]
             expected_type == unwrap(annots[n][2])
         IN  IF field \notin DOMAIN kw /\ field \notin DOMAIN d
             THEN [raised |-> Exc("AttributeError", <<>>), dict |-> d]
             ELSE IF field \notin DOMAIN kw
             THEN [raised |-> Exc("KeyError", <<>>), dict |-> d]
             ELSE IF class_differs(kw[field], expected_type)
                     /\ (IF is_optional(expected_type)
                         THEN rejects_optional(kw[field])
                         ELSE TRUE)
             THEN [raised |-> Exc("TypeError", <<>>), dict |-> d]
             ELSE init_loop(annots, kw,
                            [f \in DOMAIN d \cup {field} |->
                                IF f = field THEN kw[field] ELSE d[f]],
                            n + 1)

EmptyDict == [f \in {} |-> None]

\* Model.__init__ of a subclass with the given __annotations__
Model_init(annots, kw) == init_loop(annots, kw, EmptyDict, 1)

\* Model.__init__ of class cls: Model itself is refused (lines 19-22)
Model_new(cls, annots, kw) ==
    IF cls = "Model" THEN [raised |-> Exc("TypeError", <<>>), dict |-> EmptyDict]
    ELSE Model_init(annots, kw)

Upper == {"E", "T", "B"}
lower(c) == CASE c = "E" -> "e" [] c = "T" -> "t" [] c = "B" -> "b" [] OTHER -> c

\* the while loop of _get_table_name
RECURSIVE underscore_loop(_, _)
underscore_loop(table_name, n) ==
    IF n >= Len(table_name) THEN table_name
    ELSE IF table_name[n + 1] \in Upper /\ n > 0
         THEN underscore_loop(SubSeq(table_name, 1, n) \o <<"_">>
                                \o SubSeq(table_name, n + 1, Len(table_name)),
                              n + 2)
         ELSE underscore_loop(table_name, n + 1)

\* Model._get_table_name, from the class's __name__
_get_table_name(class_name) ==
    LET t == underscore_loop(class_name, 0)
        l == [k \in 1..Len(t) |-> lower(t[k])]
    IN  IF Len(l) > 0 /\ l[Len(l)] = "s" THEN l ELSE l \o <<"s">>

(***************************************************************************)
(* Model instances handed to insert and update: a class name, the class's  *)
(* __annotations__ in declaration order, and the instance's __dict__.      *)
(***************************************************************************)
Instance(class_name, annots, kw) ==
    [class_name |-> class_name, annotations |-> annots,
     dict |-> Model_init(annots, kw).dict,
     constructed |-> Model_init(annots, kw).raised = NoException]

EventTeam == <<"E", "v", "e", "n", "t", "T", "e", "a", "m">>
Team == <<"T", "e", "a", "m">>
Bus == <<"B", "u", "s">>

\* the instances the calls are tried on: those Model.__init__ accepts
ModelInsts ==
    { m \in
        { Instance(EventTeam,
                   << <<"id", Type(TRUE, FALSE, "str")>>,
                      <<"name", Type(FALSE, FALSE, "str")>>,
                      <<"age", Type(FALSE, TRUE, "int")>> >>,
                   [f \in {"id", "name", "age"} |->
                       CASE f = "id" -> PyStr(<<"1">>)
                         [] f = "name" -> PyStr(<<"O", "'", "?">>)
                         [] f = "age" -> None]),
          Instance(Team,
                   << <<"id", Type(TRUE, FALSE, "int")>>,
                      <<"name", Type(FALSE, FALSE, "str")>> >>,
                   [f \in {"id", "name"} |->
                       IF f = "id" THEN PyInt(1) ELSE PyStr(<<"a">>)]),
          Instance(Team,
                   << <<"name", Type(FALSE, FALSE, "str")>>,
                      <<"k1", Type(TRUE, FALSE, "str")>>,
                      <<"k2", Type(TRUE, FALSE, "str")>> >>,
                   [f \in {"name", "k1", "k2"} |->
                       CASE f = "name" -> PyStr(<<"a">>)
                         [] f = "k1" -> PyStr(<<"'">>)
                         [] f = "k2" -> PyStr(<<"2">>)]),
          Instance(Bus,
                   << <<"name", Type(FALSE, FALSE, "str")>>,
                      <<"seats", Type(FALSE, FALSE, "int")>> >>,
                   [f \in {"name", "seats"} |->
                       IF f = "name" THEN PyStr(<<"b">>) ELSE PyInt(7)]),
          Instance(Bus,
                   << <<"name", Type(FALSE, FALSE, "str")>> >>,
                   [f \in {"name"} |-> PyInt(7)]) } :
        m.constructed }

NoModel == [class_name |-> <<>>, annotations |-> <<>>, dict |-> EmptyDict,
            constructed |-> FALSE]

(***************************************************************************)
(* targa/database.py: the connection                                       *)
(***************************************************************************)
NoConnection == [established |-> FALSE, host |-> "", user |-> "", password |-> "",
                 db |-> "", port |-> 0, autocommit |-> FALSE]

\* aiomysql.connect(host, user, password, db, port, autocommit)
aiomysql_connect(host, user, password, db, port, autocommit) ==
    [established |-> TRUE, host |-> host, user |-> user, password |-> password,
     db |-> db, port |-> port, autocommit |-> autocommit]

\* the default of Database.connect's port parameter
port_default == 3306

\* Database.connect: port is not handed on, so aiomysql.connect uses its own
\* default port, 3306
connect(host, username, password, database_name, port, autocommit) ==
    aiomysql_connect(host, username, password, database_name, 3306, autocommit)

\* `if not self._connection`
not_connection(c) == ~c.established

(***************************************************************************)
(* Database.query: the substitution loop                                   *)
(***************************************************************************)
\* query.index('?'), counted from 0; -1 stands for the ValueError
RECURSIVE index_from(_, _, _)
index_from(q, c, n) ==
    IF n > Len(q) THEN -1
    ELSE IF q[n] = c THEN n - 1
    ELSE index_from(q, c, n + 1)

str_index(q, c) == index_from(q, c, 1)

\* the loop body for the values from position n on; subs are the str()-ed values.
\* escapes counts the escape_string calls made.
RECURSIVE subst_loop(_, _, _)
subst_loop(q, subs, n) ==
    IF n > Len(subs) THEN [raised |-> FALSE, query |-> q, escapes |-> n - 1]
    ELSE LET index == str_index(q, "?")
         IN  IF index = -1
             THEN [raised |-> TRUE, query |-> q, escapes |-> n - 1]
             ELSE subst_loop(SubSeq(q, 1, index)
                               \o escape_string(PyStr(subs[n])).text
                               \o SubSeq(q, index + 2, Len(q)),
                             subs, n + 1)

\* lines 149-160
substitute(q, values) ==
    subst_loop(q, [n \in 1..Len(values) |-> str(values[n])], 1)

(***************************************************************************)
(* Statement text of insert and update                                     *)
(***************************************************************************)
\* ', '.join(model_inst.__annotations__.keys())
RECURSIVE join_keys(_, _)
join_keys(annots, n) ==
    IF n > Len(annots) THEN <<>>
    ELSE (IF n > 1 THEN <<",", " ">> ELSE <<>>) \o <<annots[n][1]>>
         \o join_keys(annots, n + 1)

\* the loop of insert over the fields (lines 113-117)
RECURSIVE insert_values(_, _)
insert_values(m, n) ==
    IF n > Len(m.annotations) THEN <<>>
    ELSE LET field == m.annotations[n][1]
         IN  (IF m.dict[field] # None
              THEN <<"'">> \o escape_string(PyStr(str(m.dict[field]))).text
                     \o <<"'", ",", " ">>
              ELSE <<"NULL", ",", " ">>)
             \o insert_values(m, n + 1)

\* query[:-2]
cut2(q) == SubSeq(q, 1, Len(q) - 2)

\* lines 108-118
insert_query(m) ==
    cut2(<<"INSERT INTO ">> \o _get_table_name(m.class_name) \o <<" (">>
         \o join_keys(m.annotations, 1) \o <<")\n", "VALUES (">>
         \o insert_values(m, 1))
    \o <<")">>

\* the loop of update over the fields (lines 245-249)
RECURSIVE update_values(_, _)
update_values(m, n) ==
    IF n > Len(m.annotations) THEN <<>>
    ELSE LET field == m.annotations[n][1]
         IN  (IF m.dict[field] # None
              THEN <<field, " = ", "'">>
                     \o escape_string(PyStr(str(m.dict[field]))).text
                     \o <<"'", ",", " ">>
              ELSE <<field, " = NULL", ",", " ">>)
             \o update_values(m, n + 1)

\* lines 241-250; wc is the text of the WHERE clause
update_query(m, wc) ==
    cut2(<<"UPDATE ">> \o _get_table_name(m.class_name) \o <<"\nSET ">>
         \o update_values(m, 1))
    \o <<"\n">> \o wc \o <<";">>

\* the number of escape_string calls either loop makes
escape_count(m) ==
    Cardinality({n \in 1..Len(m.annotations) : m.dict[m.annotations[n][1]] # None})

\* annotation_types.index(_PK), counted from 0: list.index raises ValueError
\* when no element equals _PK
RECURSIVE pk_index_from(_, _)
pk_index_from(annots, n) ==
    IF n > Len(annots) THEN [raised |-> TRUE, value |-> 0]
    ELSE IF annots[n][2].pk THEN [raised |-> FALSE, value |-> n - 1]
    ELSE pk_index_from(annots, n + 1)

index_PK(annots) == pk_index_from(annots, 1)

\* lines 219-235: the WHERE clause update derives when it was given none
derive_where(m, conn) ==
    LET pk_field_index == index_PK(m.annotations)
    IN  IF pk_field_index.raised
        THEN [raised |-> Exc("ValueError", <<>>), text |-> <<>>, escapes |-> 0]
        ELSE IF ~(pk_field_index.value >= 0)
        THEN [raised |-> Exc("KeyError", <<>>), text |-> <<>>, escapes |-> 0]
        ELSE LET pk_field == m.annotations[pk_field_index.value + 1][1]
             IN  IF ~conn.established
                 \* None has no attribute escape_string
                 THEN [raised |-> Exc("AttributeError", <<>>), text |-> <<>>,
                       escapes |-> 0]
                 ELSE IF ~escape_string(m.dict[pk_field]).ok
                 THEN [raised |-> Exc("AttributeError", <<>>), text |-> <<>>,
                       escapes |-> 1]
                 ELSE [raised |-> NoException,
                       text |-> <<"WHERE ", pk_field, " = ", "'">>
                                  \o escape_string(m.dict[pk_field]).text
                                  \o <<"'">>,
                       escapes |-> 1]

(***************************************************************************)
(* What the cursor can report                                              *)
(***************************************************************************)
\* a column descriptor is <<name, type_code>>
Descriptions ==
    { <<>>,
      << <<"id", 3>> >>,
      << <<"id", 3>>, <<"name", 253>> >>,
      << <<"id", 3>>, <<"id", 3>> >> }

Cells == {1, 2}

RowLists(d) ==
    UNION { [1..k -> [1..Len(d) -> Cells]] : k \in 0..MaxRows }

\* [x[0] for x in list(cursor.description)]
column_names_of(d) == [k \in 1..Len(d) |-> d[k][1]]

Min(a, b) == IF a < b THEN a ELSE b

\* dict(zip(column_names, row)): a later pair replaces an earlier one of its key
zip_dict(column_names, row) ==
    LET n == Min(Len(column_names), Len(row))
    IN  [c \in {column_names[k] : k \in 1..n} |->
            row[CHOOSE k \in 1..n :
                    /\ column_names[k] = c
                    /\ \A j \in 1..n : column_names[j] = c => j <= k]]

\* the value query returns: None, or a list of dicts
NoResult == [none |-> TRUE, list |-> <<>>]
ListResult(l) == [none |-> FALSE, list |-> l]

\* lines 196-200 giving None for an empty rows
shape_rows_none_when_empty(column_names, rws) ==
    IF rws = <<>> THEN NoResult
    ELSE ListResult([k \in 1..Len(rws) |-> zip_dict(column_names, rws[k])])

\* lines 196-200
shape_rows(column_names, rws) ==
    ListResult([k \in 1..Len(rws) |-> zip_dict(column_names, rws[k])])

\* `if cursor.description`
has_description(d) == Len(d) > 0

(***************************************************************************)
(* What the connection can raise                                           *)
(***************************************************************************)
PingFailures == {Exc("OperationalError", <<2013>>)}

ExecuteFailures ==
    { Exc("RuntimeError", <<>>),
      Exc("IntegrityError", <<duplicate_primary_key>>),
      Exc("OperationalError", <<2013>>),
      Exc("CancelledError", <<>>) }

CommitFailures == {Exc("OperationalError", <<2013>>)}

\* line 183 without its isinstance(outer_ex, RuntimeError)
swallow_any_first(first, retry) ==
    /\ Len(retry.args) > 0
    /\ retry.args[1] = duplicate_primary_key

\* line 183
swallow(first, retry) ==
    /\ IsRuntimeError(first)
    /\ Len(retry.args) > 0
    /\ retry.args[1] = duplicate_primary_key

(***************************************************************************)
(* The inputs of the calls                                                 *)
(***************************************************************************)
QueryChars == {"?", "a"}
QueryTexts == UNION { [1..k -> QueryChars] : k \in 0..MaxLen }

SubstValues == {PyStr(<<"?">>), PyStr(<<"'">>), PyInt(7)}
SubLists == UNION { [1..k -> SubstValues] : k \in 0..MaxSubs }

\* update's where_clause argument: omitted (None), empty, or a clause
WhereArgs == {None, PyStr(<<>>), PyStr(<<"WHERE 1">>)}

Events(name, k) == [j \in 1..k |-> name]

(***************************************************************************)
(* Database calls.  A call runs from its start to its first await in one   *)
(* step, and from each await to the next in one step.                      *)
(***************************************************************************)
\* the call raises ex to its caller, committing on the way out
Raise_then_commit(ex, lg) ==
    /\ pc' = "done"
    /\ raised' = ex
    /\ log' = Append(lg, "commit")

\* the call raises ex to its caller
Raise(ex, lg) ==
    /\ pc' = "done"
    /\ raised' = ex
    /\ log' = lg

\* _ensure_connection (lines 87-90), up to the await of ping
ensure_connection(lg) ==
    IF not_connection(_connection)
    THEN Raise(InitializationError, lg)
    ELSE /\ pc' = "ensure"
         /\ raised' = NoException
         /\ log' = Append(lg, "ping")

fresh ==
    /\ outer_ex' = NoException
    /\ e' = NoException
    /\ attempts' = <<>>
    /\ description' = <<>>
    /\ rows' = <<>>
    /\ result' = NoResult

\* await db.query(text, *subs)
QueryCall ==
    /\ pc = "idle"
    /\ \E text \in QueryTexts, subs \in SubLists :
          /\ query_arg' = text
          /\ substitutions' = subs
          /\ query' = text
    /\ op' = "query"
    /\ model_inst' = NoModel
    /\ where_arg' = None
    /\ where_clause' = None
    /\ fresh
    /\ ensure_connection(<<>>)
    /\ UNCHANGED <<_connection, connect_args, modelVars>>

\* await db.insert(model_inst)
InsertCall ==
    /\ pc = "idle"
    /\ \E m \in ModelInsts : model_inst' = m
    /\ op' = "insert"
    /\ query_arg' = <<>>
    /\ substitutions' = <<>>
    /\ query' = <<>>
    /\ where_arg' = None
    /\ where_clause' = None
    /\ fresh
    /\ ensure_connection(<<>>)
    /\ UNCHANGED <<_connection, connect_args, modelVars>>

\* await db.update(model_inst, where_clause): lines 219-238
UpdateCall ==
    /\ pc = "idle"
    /\ op' = "update"
    /\ query_arg' = <<>>
    /\ substitutions' = <<>>
    /\ query' = <<>>
    /\ fresh
    /\ \E m \in ModelInsts, wc \in WhereArgs :
          /\ model_inst' = m
          /\ where_arg' = wc
          /\ IF ~truthy(wc)
             THEN LET w == derive_where(m, _connection)
                      lg == Events("escape_string", w.escapes)
                  IN  IF w.raised # NoException
                      THEN /\ where_clause' = wc
                           /\ Raise(w.raised, lg)
                      ELSE /\ where_clause' = PyStr(w.text)
                           /\ ensure_connection(lg)
             ELSE /\ where_clause' = wc
                  /\ ensure_connection(<<>>)
    /\ UNCHANGED <<_connection, connect_args, modelVars>>

\* Database.query from its substitution loop to the await of cursor.execute
\* (lines 148-172), entered with the statement text q and the values subs
enter_query(q, subs, lg) ==
    LET r == substitute(q, subs)
        lg2 == lg \o Events("escape_string", r.escapes)
    IN  /\ query' = r.query
        /\ IF r.raised
           THEN Raise(SubstError, lg2)
           ELSE /\ pc' = "execute"
                /\ raised' = NoException
                /\ log' = lg2 \o <<"cursor", "execute">>

\* the ping of _ensure_connection completes
EnsurePing ==
    /\ pc = "ensure"
    /\ \/ \E ex \in PingFailures :
             /\ Raise(ex, log)
             /\ UNCHANGED query
       \/ CASE op = "query" -> enter_query(query, substitutions, log)
            [] op = "insert" ->
                 enter_query(insert_query(model_inst), <<>>,
                             log \o Events("escape_string", escape_count(model_inst)))
            [] op = "update" ->
                 enter_query(update_query(model_inst, where_clause.s), <<>>,
                             log \o Events("escape_string", escape_count(model_inst)))
    /\ UNCHANGED <<_connection, connect_args, modelVars, op, query_arg,
                   substitutions, model_inst, where_arg, where_clause, outer_ex, e,
                   attempts, description, rows, result>>

\* Database.query returns res: to the caller, or into insert / update, which
\* then await commit (lines 121-122, 253-254)
query_returns(res, lg) ==
    /\ result' = res
    /\ raised' = NoException
    /\ IF op = "query"
       THEN /\ pc' = "done"
            /\ log' = Append(lg, "return")
       ELSE /\ pc' = "commit"
            /\ log' = lg \o <<"return", "commit">>

\* lines 188-193, with cursor.description = d
after_execution(d, lg) ==
    /\ description' = d
    /\ IF has_description(d)
       THEN /\ pc' = "fetchall"
            /\ log' = Append(lg, "fetchall")
            /\ UNCHANGED <<result, raised>>
       ELSE query_returns(NoResult, lg)

\* the first cursor.execute completes (lines 171-174)
Execute ==
    /\ pc = "execute"
    /\ \/ \E d \in Descriptions :
             /\ after_execution(d, log)
             /\ attempts' = Append(attempts, NoException)
             /\ UNCHANGED outer_ex
       \/ \E ex \in ExecuteFailures :
             /\ attempts' = Append(attempts, ex)
             /\ IF IsException(ex)
                THEN /\ outer_ex' = ex
                     /\ pc' = "reprobe"
                     /\ log' = Append(log, "ping")
                     /\ UNCHANGED <<description, result, raised>>
                ELSE /\ Raise(ex, log)
                     /\ UNCHANGED <<outer_ex, description, result>>
    /\ UNCHANGED <<_connection, connect_args, modelVars, op, query_arg,
                   substitutions, query, model_inst, where_arg, where_clause, e,
                   rows>>

\* the ping after the failed execution completes (line 174)
Reprobe ==
    /\ pc = "reprobe"
    /\ \/ /\ pc' = "retry"
          /\ log' = Append(log, "execute")
          /\ UNCHANGED raised
       \/ \E ex \in PingFailures : Raise(ex, log)
    /\ UNCHANGED <<_connection, connect_args, modelVars, op, query_arg,
                   substitutions, query, model_inst, where_arg, where_clause,
                   outer_ex, e, attempts, description, rows, result>>

\* the second cursor.execute completes, a failure leading to another ping and
\* another execution
Retry_again ==
    /\ pc = "retry"
    /\ \/ \E d \in Descriptions :
             /\ after_execution(d, log)
             /\ attempts' = Append(attempts, NoException)
             /\ UNCHANGED <<outer_ex, e>>
       \/ \E ex \in ExecuteFailures :
             /\ attempts' = Append(attempts, ex)
             /\ outer_ex' = ex
             /\ pc' = "reprobe"
             /\ log' = Append(log, "ping")
             /\ UNCHANGED <<e, description, result, raised>>
    /\ UNCHANGED <<_connection, connect_args, modelVars, op, query_arg,
                   substitutions, query, model_inst, where_arg, where_clause, rows>>

\* the second cursor.execute completes (lines 180-186); after a failure that
\* is passed over, cursor.description is whatever the cursor holds
Retry ==
    /\ pc = "retry"
    /\ \/ \E d \in Descriptions :
             /\ after_execution(d, log)
             /\ attempts' = Append(attempts, NoException)
             /\ UNCHANGED e
       \/ \E ex \in ExecuteFailures, d \in Descriptions :
             /\ attempts' = Append(attempts, ex)
             /\ IF IsException(ex) /\ swallow(outer_ex, ex)
                THEN /\ e' = ex
                     /\ after_execution(d, log)
                ELSE /\ e' = IF IsException(ex) THEN ex ELSE e
                     /\ Raise(ex, log)
                     /\ UNCHANGED <<description, result>>
    /\ UNCHANGED <<_connection, connect_args, modelVars, op, query_arg,
                   substitutions, query, model_inst, where_arg, where_clause,
                   outer_ex, rows>>

\* cursor.fetchall completes (lines 190-200); it hands over rows the cursor
\* already holds and is taken not to fail
Fetchall ==
    /\ pc = "fetchall"
    /\ \E rs \in RowLists(description) :
          /\ rows' = rs
          /\ query_returns(shape_rows(column_names_of(description), rs), log)
    /\ UNCHANGED <<_connection, connect_args, modelVars, op, query_arg,
                   substitutions, query, model_inst, where_arg, where_clause,
                   outer_ex, e, attempts, description>>

\* the commit of insert / update completes (lines 122, 254)
Commit ==
    /\ pc = "commit"
    /\ \/ /\ pc' = "done"
          /\ UNCHANGED <<raised, log>>
       \/ \E ex \in CommitFailures : Raise(ex, log)
    /\ UNCHANGED <<_connection, connect_args, modelVars, op, query_arg,
                   substitutions, query, model_inst, where_arg, where_clause,
                   outer_ex, e, attempts, description, rows, result>>

\* the caller takes the call's outcome; the call's frame is gone
Resume ==
    /\ pc = "done"
    /\ pc' = "idle"
    /\ op' = "none"
    /\ query_arg' = <<>>
    /\ substitutions' = <<>>
    /\ query' = <<>>
    /\ model_inst' = NoModel
    /\ where_arg' = None
    /\ where_clause' = None
    /\ log' = <<>>
    /\ raised' = NoException
    /\ fresh
    /\ UNCHANGED <<_connection, connect_args, modelVars>>

NoArgs == [host |-> "", username |-> "", password |-> "", database_name |-> "",
           port |-> 0, autocommit |-> FALSE]

SessionIdle ==
    /\ pc = "idle"
    /\ op = "none"
    /\ query_arg = <<>>
    /\ substitutions = <<>>
    /\ query = <<>>
    /\ model_inst = NoModel
    /\ where_arg = None
    /\ where_clause = None
    /\ log = <<>>
    /\ outer_ex = NoException
    /\ e = NoException
    /\ attempts = <<>>
    /\ description = <<>>
    /\ rows = <<>>
    /\ result = NoResult
    /\ raised = NoException

NoConstruction ==
    /\ annotations = <<>>
    /\ kwargs = EmptyDict
    /\ self_dict = EmptyDict
    /\ init_class = "none"
    /\ init_pc = "none"
    /\ init_raised = NoException

\* a Database as constructed: wrapping an established connection
\* (Database.connect) or none (Database(None), the class attribute's value)
Init ==
    /\ _connection \in {NoConnection,
                        connect("db", "user", "pw", "app", port_default, TRUE)}
    /\ connect_args = NoArgs
    /\ SessionIdle
    /\ NoConstruction

Next ==
    \/ QueryCall
    \/ InsertCall
    \/ UpdateCall
    \/ EnsurePing
    \/ Execute
    \/ Reprobe
    \/ Retry
    \/ Fetchall
    \/ Commit
    \/ Resume

Spec == Init /\ [][Next]_vars

\* every await of the call completes: the event loop resumes the coroutine
FairSpec == Spec /\ WF_vars(EnsurePing) /\ WF_vars(Execute) /\ WF_vars(Reprobe)
                 /\ WF_vars(Retry) /\ WF_vars(Fetchall) /\ WF_vars(Commit)

(***************************************************************************)
(* Database.connect, on its own                                            *)
(***************************************************************************)
Hosts == {"db1", "db2", "db3"}
Usernames == {"root", "app"}
Passwords == {"pw1", "pw2"}
DatabaseNames == {"app", "test"}
Ports == {3306, 3307, 33060}

\* the default of Database.connect's autocommit parameter
autocommit_default == TRUE

\* await Database.connect(host, username, password, database_name[, port][, autocommit])
Connect ==
    /\ \E host \in Hosts, username \in Usernames, password \in Passwords,
          database_name \in DatabaseNames,
          port \in Ports \cup {port_default},
          autocommit \in BOOLEAN \cup {autocommit_default} :
          /\ connect_args' = [host |-> host, username |-> username,
                              password |-> password,
                              database_name |-> database_name,
                              port |-> port, autocommit |-> autocommit]
          /\ _connection' = connect(host, username, password, database_name,
                                    port, autocommit)
    /\ UNCHANGED <<sessionVars, modelVars>>

ConnectInit ==
    /\ _connection = NoConnection
    /\ connect_args = NoArgs
    /\ SessionIdle
    /\ NoConstruction

ConnectNext == Connect

ConnectSpec == ConnectInit /\ [][ConnectNext]_vars

(***************************************************************************)
(* Model construction, on its own                                          *)
(***************************************************************************)
FieldNames == <<"id", "name", "age">>
DeclTypes == { Type(pk, optional, base) :
                 pk \in BOOLEAN, optional \in BOOLEAN, base \in {"int", "str"} }
FieldValues == { None, PyInt(0), PyInt(5), PyStr(<<>>), PyStr(<<"a">>),
                 PyBool(FALSE), PyBool(TRUE) }

\* the __annotations__ of subclasses with up to MaxFields fields
AnnotationSeqs ==
    UNION { { [k \in 1..n |-> <<FieldNames[k], ts[k]>>] : ts \in [1..n -> DeclTypes] } :
            n \in 1..MaxFields }

KwargsFor(annots) ==
    UNION { [S -> FieldValues] : S \in SUBSET {annots[k][1] : k \in 1..Len(annots)} }

\* cls(**kwargs)
Construct ==
    /\ init_pc = "new"
    /\ LET r == Model_new(init_class, annotations, kwargs)
       IN  /\ self_dict' = r.dict
           /\ init_raised' = r.raised
           /\ init_pc' = IF r.raised = NoException THEN "constructed" ELSE "raised"
    /\ UNCHANGED <<_connection, connect_args, sessionVars, annotations, kwargs,
                   init_class>>

ModelInit ==
    /\ _connection = NoConnection
    /\ connect_args = NoArgs
    /\ SessionIdle
    /\ init_class \in {"Model", "Subclass"}
    /\ annotations \in AnnotationSeqs
    /\ kwargs \in KwargsFor(annotations)
    /\ self_dict = EmptyDict
    /\ init_pc = "new"
    /\ init_raised = NoException

ModelNext == Construct

ModelSpec == ModelInit /\ [][ModelNext]_vars

(***************************************************************************)
(* Properties                                                              *)
(***************************************************************************)
Count(seq, x) == Cardinality({k \in 1..Len(seq) : seq[k] = x})
Last(seq) == seq[Len(seq)]
Placeholders(q) == Count(q, "?")
Executes == Count(log, "execute")
Commits == Count(log, "commit")
LastEvent == IF log = <<>> THEN "none" ELSE log[Len(log)]

\* position of the first x in seq (0 when there is none)
FirstIndex(seq, x) ==
    IF \E k \in 1..Len(seq) : seq[k] = x
    THEN CHOOSE k \in 1..Len(seq) : seq[k] = x /\ \A j \in 1..(k - 1) : seq[j] # x
    ELSE 0

\* q with its n-th, (n+1)-th, ... '?' replaced, left to right, by the escaped
\* textual form of the n-th, (n+1)-th, ... value, while values last
RECURSIVE Bound(_, _, _)
Bound(q, values, n) ==
    IF q = <<>> THEN <<>>
    ELSE IF Head(q) = "?" /\ n <= Len(values)
         THEN escape_chars(str(values[n])) \o Bound(Tail(q), values, n + 1)
         ELSE <<Head(q)>> \o Bound(Tail(q), values, n)

\* the part of q from its n-th '?' on (empty when it has fewer)
RECURSIVE FromPlaceholder(_, _)
FromPlaceholder(q, n) ==
    IF q = <<>> THEN <<>>
    ELSE IF Head(q) = "?"
         THEN (IF n = 1 THEN q ELSE FromPlaceholder(Tail(q), n - 1))
         ELSE FromPlaceholder(Tail(q), n)

IsSuffix(t, q) ==
    Len(t) <= Len(q) /\ SubSeq(q, Len(q) - Len(t) + 1, Len(q)) = t

\* Database.query got past its liveness probe and ran its substitution loop
SubstitutionRan ==
    /\ op = "query"
    /\ \/ pc \in {"execute", "reprobe", "retry", "fetchall"}
       \/ pc = "done" /\ (raised = SubstError \/ Count(log, "cursor") > 0)

\* C1: with as many values as placeholders, the text Database.query executes is
\* the caller's text with its n-th placeholder, left to right, replaced by the
\* escaped textual form of the n-th value (no inserted character is replaced
\* by a later value), and no substitution error is raised.
C1_InOrderSubstitution ==
    (SubstitutionRan /\ Placeholders(query_arg) = Len(substitutions))
        => /\ raised # SubstError
           /\ query = Bound(query_arg, substitutions, 1)

\* C2: with more values than the caller's text has placeholders, Database.query
\* raises SubstError and executes nothing; with fewer it raises no SubstError
\* and the placeholders left over stay at the end of the executed text as they
\* were.
C2_SubstitutionCount ==
    SubstitutionRan
        => IF Len(substitutions) > Placeholders(query_arg)
           THEN pc = "done" /\ raised = SubstError /\ Executes = 0
           ELSE /\ raised # SubstError
                /\ IsSuffix(FromPlaceholder(query_arg, Len(substitutions) + 1), query)

DuplicateKeyError(ex) == Len(ex.args) > 0 /\ ex.args[1] = duplicate_primary_key

\* the second execution failed and the call went on past it
RetryFailed == Len(attempts) = 2 /\ attempts[2] # NoException
Swallowed == RetryFailed /\ LastEvent # "execute"

\* C3: when both executions fail, the second failure is passed over (the call
\* goes on, and a query call returns) exactly when the first failure was a
\* RuntimeError and the second is the duplicate-primary-key error; otherwise
\* the call ends raising the second failure itself.
C3_RetrySwallow ==
    RetryFailed
        => /\ Swallowed <=> (IsRuntimeError(attempts[1]) /\ DuplicateKeyError(attempts[2]))
           /\ ~Swallowed => (pc = "done" /\ raised = attempts[2])
           /\ (Swallowed /\ op = "query") => raised = NoException
           /\ (Swallowed /\ op = "query" /\ pc = "done") => LastEvent = "return"

C3_Witness ==
    /\ op = "query"
    /\ pc = "done"
    /\ raised = NoException
    /\ attempts = <<Exc("RuntimeError", <<>>),
                    Exc("IntegrityError", <<duplicate_primary_key>>)>>

\* the pings issued after the first execution
Reprobes ==
    IF Executes = 0 THEN 0
    ELSE Count(SubSeq(log, FirstIndex(log, "execute"), Len(log)), "ping")

C4_Bounded ==
    /\ Executes <= 2
    /\ Len(attempts) <= Executes
    /\ Reprobes <= 1
    /\ Executes = 2
         => LET i == FirstIndex(log, "execute")
            IN  /\ attempts[1] # NoException
                /\ log[i + 1] = "ping"
                /\ log[i + 2] = "execute"
    /\ pc = "reprobe" => (Executes = 1 /\ LastEvent = "ping")
    /\ pc = "retry" => (Executes = 2 /\ Len(attempts) = 1 /\ Reprobes = 1)

\* C4: one call executes its statement at most twice, the second time only
\* after the first failed and one ping was issued and completed in between,
\* never pings a second time after a failure, and always ends.
C4_AtMostOneRetry ==
    /\ []C4_Bounded
    /\ (pc \notin {"idle", "done"}) ~> (pc = "done")

C4_Witness ==
    /\ pc = "done"
    /\ Len(attempts) = 2
    /\ attempts[2] # NoException
    /\ raised = attempts[2]

\* a declared field's value is of another type than declared and is not the
\* None of an optional field
Mismatch(k) ==
    LET t == unwrap(annotations[k][2])
        v == kwargs[annotations[k][1]]
    IN  class_differs(v, t) /\ ~(t.optional /\ v = None)

\* C5: a subclass given a value for every field is constructed exactly when no
\* field's value differs in type from the declared type, except None for an
\* optional field; otherwise TypeError is raised.
C5_TypeMismatch ==
    (/\ init_class = "Subclass"
     /\ init_pc # "new"
     /\ DOMAIN kwargs = {annotations[k][1] : k \in 1..Len(annotations)})
        => IF \E k \in 1..Len(annotations) : Mismatch(k)
           THEN init_pc = "raised" /\ init_raised = Exc("TypeError", <<>>)
           ELSE init_pc = "constructed"

HasPK(m) == \E k \in 1..Len(m.annotations) : m.annotations[k][2].pk

FirstPK(m) ==
    m.annotations[CHOOSE k \in 1..Len(m.annotations) :
                     /\ m.annotations[k][2].pk
                     /\ \A j \in 1..(k - 1) : ~m.annotations[j][2].pk][1]

\* C6: update without a WHERE clause uses the first primary-key field of the
\* model for it; with no primary-key field it raises the KeyError and nothing
\* is executed or committed.
C6_UpdateWhere ==
    (op = "update" /\ ~truthy(where_arg))
        => IF HasPK(model_inst)
           THEN Count(log, "ping") > 0
                  => where_clause =
                        PyStr(<<"WHERE ", FirstPK(model_inst), " = ", "'">>
                              \o escape_chars(model_inst.dict[FirstPK(model_inst)].s)
                              \o <<"'">>)
           ELSE /\ pc = "done"
                /\ raised = Exc("KeyError", <<>>)
                /\ Executes = 0
                /\ Commits = 0

\* C7: on a Database without a connection every call ends with
\* InitializationError before it touches the connection.
C7_Uninitialized ==
    (~_connection.established /\ pc # "idle")
        => /\ pc = "done"
           /\ raised = InitializationError
           /\ log = <<>>

C9_ConnectParameters ==
    _connection.established
        => /\ _connection.host = connect_args.host
           /\ _connection.user = connect_args.username
           /\ _connection.password = connect_args.password
           /\ _connection.db = connect_args.database_name
           /\ _connection.port = connect_args.port
           /\ _connection.autocommit = connect_args.autocommit

\* C10: insert and update commit at most once, only as the step right after
\* Database.query returned, which follows the liveness ping and one or two
\* executions; a call that returns has committed once, and a call that raised
\* anywhere before the commit has not committed.
C10_CommitOrder ==
    op \in {"insert", "update"}
        => /\ Commits <= 1
           /\ Commits = 1
                => /\ LastEvent = "commit"
                   /\ Len(log) >= 2
                   /\ log[Len(log) - 1] = "return"
                   /\ Executes \in {1, 2}
                   /\ Len(attempts) = Executes
                   /\ \/ Last(attempts) = NoException
                      \/ Executes = 2 /\ swallow(attempts[1], attempts[2])
                   /\ FirstIndex(log, "ping") > 0
                   /\ FirstIndex(log, "ping") < FirstIndex(log, "execute")
           /\ (pc = "done" /\ raised = NoException) => Commits = 1
           /\ (pc = "done" /\ raised # NoException /\ LastEvent # "commit")
                => Commits = 0
           /\ pc = "commit" => (Commits = 1 /\ raised = NoException)

C10_Witness ==
    /\ op = "update"
    /\ pc = "done"
    /\ raised = NoException
    /\ Len(attempts) = 2
    /\ Commits = 1

====
